---- MODULE Spec2Model ----
(***************************************************************************)
(* Model of benchmark.py: the per-branch run loop (execute_run), the two   *)
(* time-remaining estimators, time_string, gather_output and the report    *)
(* layout of print_results.                                                *)
(*                                                                         *)
(* Durations are integers in milliseconds (time() rounds to 3 decimals),   *)
(* statistics are in centiseconds (round(.., 2)), strings are sequences of *)
(* one-character strings.                                                  *)
(***************************************************************************)
EXTENDS Integers, Sequences, FiniteSets

VARIABLES
    pc,         \* position of main / execute_run
    args,       \* parsed command line: [runs, cached]
    branch,     \* the Run object execute_run is working on
    runs,       \* runs[b] = Run.runs of branch b (milliseconds)
    i,          \* iterations of the for loop of execute_run begun so far
    run,        \* local `run` of execute_run (last measured duration)
    remaining,  \* local `remaining` of execute_run (last estimate, seconds)
    calls,      \* calls[b][t] = how often thunk t of branch b was invoked
    failed,     \* TRUE once an invoked action has raised
    out,        \* the lines written by log(), in order
    report,     \* what gather_output returned (statistics of the report)
    raw,        \* raw[b] = the list printed by "raw <b>_runs:"
    seconds,    \* argument of a time_string call
    shown,      \* result of that time_string call
    kvs,        \* argument of a print_results call
    lines       \* rows printed by that print_results call

vars == <<pc, args, branch, runs, i, run, remaining, calls, failed, out,
          report, raw, seconds, shown, kvs, lines>>

mainVars == <<pc, args, branch, runs, i, run, remaining, calls, failed, out,
              report, raw>>
timeVars == <<seconds, shown>>
printVars == <<kvs, lines>>

----------------------------------------------------------------------------
(* Bounds of the model *)

MaxRuns == 5          \* largest --runs
MaxNegRuns == 1       \* --runs ranges over -MaxNegRuns .. MaxRuns
MaxSeconds == 7300    \* largest argument of time_string
MaxLines == 3         \* longest print_results input
MaxKeyLen == 13       \* longest label
MaxValLen == 2        \* longest value

(* Durations time() may return, in milliseconds.  They are positive: a     *)
(* timed `dbt parse` never takes 0.000 s, so improvement() never divides   *)
(* by a zero mean.                                                         *)
Durations == {500, 2000}

Branches == {"dev", "base"}
Thunks == {"setup", "run", "cleanup", "time_remaining"}

----------------------------------------------------------------------------
(* Arithmetic helpers *)

Max(a, b) == IF a >= b THEN a ELSE b
Min(a, b) == IF a <= b THEN a ELSE b

RECURSIVE Sum(_)
Sum(l) == IF l = <<>> THEN 0 ELSE Head(l) + Sum(Tail(l))

(* Python's round() of the rational num/den, den > 0: nearest, ties to     *)
(* even.  On the durations above the floating-point results of the source  *)
(* agree with this exact arithmetic.                                       *)
round(num, den) ==
    LET q == num \div den
        r == num % den
    IN  IF 2 * r < den THEN q
        ELSE IF 2 * r > den THEN q + 1
        ELSE IF q % 2 = 0 THEN q ELSE q + 1

(* math.ceil(a / b), b > 0 *)
ceil(a, b) == -((-a) \div b)

(* list.sort(): ascending insertion sort *)
RECURSIVE Insert(_, _)
Insert(x, l) ==
    IF l = <<>> THEN <<x>>
    ELSE IF x <= Head(l) THEN <<x>> \o l
    ELSE <<Head(l)>> \o Insert(x, Tail(l))

RECURSIVE sort(_)
sort(l) == IF l = <<>> THEN <<>> ELSE Insert(Head(l), sort(Tail(l)))

----------------------------------------------------------------------------
(* time_string: the text "<n> <unit>" as the pair <<n, unit>> *)

time_string_floor(s) ==
    IF s > 3600 THEN <<s \div 3600, "hours">>
    ELSE IF s > 60 THEN <<s \div 60, "minutes">>
    ELSE <<s, "seconds">>

time_string(s) ==
    IF s > 3600 THEN <<ceil(s, 3600), "hours">>
    ELSE IF s > 60 THEN <<ceil(s, 60), "minutes">>
    ELSE <<s, "seconds">>

----------------------------------------------------------------------------
(* The Run objects built by main *)

run_count(b) == args.runs

(* Run.time_remaining of branch b on history l and planned count n:        *)
(* int(round(mean(l) * (2n - len(l)), 0)) for dev,                         *)
(* int(round(mean(l) * (n - len(l)), 0)) for base; l is in milliseconds.   *)
time_remaining_swapped(b, l, n) ==
    IF b = "dev"
    THEN round(Sum(l) * (n - Len(l)), 1000 * Len(l))
    ELSE round(Sum(l) * ((2 * n) - Len(l)), 1000 * Len(l))

time_remaining(b, l, n) ==
    IF b = "dev"
    THEN round(Sum(l) * ((2 * n) - Len(l)), 1000 * Len(l))
    ELSE round(Sum(l) * (n - Len(l)), 1000 * Len(l))

----------------------------------------------------------------------------
(* Statistics of the report, in centiseconds (round(.., 2)) *)

mean2(l) == round(Sum(l), 10 * Len(l))

median2(l) ==
    LET s == sort(l)
        n == Len(l)
    IN  IF n % 2 = 1 THEN round(s[(n + 1) \div 2], 10)
        ELSE round(s[n \div 2] + s[(n \div 2) + 1], 20)

(* get_stat: percent = round(100 * ((base - dev) / base), 2), in hundredths *)
(* of a percent; "IMPROVED BY" when positive, else "DEGRADED BY" abs.       *)
get_stat(name, d, b) ==
    LET mag == round(10000 * (IF b >= d THEN b - d ELSE d - b), b)
        percent == IF b >= d THEN mag ELSE 0 - mag
    IN  [name |-> name, dev |-> d, base |-> b,
         verdict |-> IF percent > 0 THEN "IMPROVED BY" ELSE "DEGRADED BY",
         percent |-> mag]

NoReport == <<>>

----------------------------------------------------------------------------
(* log(): one record per line written *)

Line(ev, b, x, y, u) == [ev |-> ev, b |-> b, x |-> x, y |-> y, u |-> u]

(* the log lines of setup(), in order *)
SetupLog ==
    << Line("setting up directories", "", 0, 0, ""),
       Line("cloning both branches", "", 0, 0, ""),
       Line("may ask for ssh password twice", "", 0, 0, ""),
       Line("installing dev branch", "", 0, 0, ""),
       Line("installing base branch", "", 0, 0, "") >>

(* how many of those lines are out when the step after them raises *)
SetupFailPoints == {1, 3, 4, 5}

Bump(b, t) == [calls EXCEPT ![b][t] = @ + 1]

(* the ten sentinel runs of a dry run *)
DryRunLen == 10
DryRunValue == 1000
DryRuns == [j \in 1..DryRunLen |-> DryRunValue]

----------------------------------------------------------------------------
(* main() and execute_run() *)

Init ==
    /\ pc = "main"
    /\ args \in [runs : (0 - MaxNegRuns)..MaxRuns, cached : BOOLEAN]
    /\ branch = "dev"
    /\ runs = [b \in Branches |-> <<>>]
    /\ i = 0
    /\ run = 0
    /\ remaining = 0
    /\ calls = [b \in Branches |-> [t \in Thunks |-> 0]]
    /\ failed = FALSE
    /\ out = <<>>
    /\ report = NoReport
    /\ raw = [b \in Branches |-> <<>>]
    /\ seconds = 0
    /\ shown = <<0, "">>
    /\ kvs = <<>>
    /\ lines = <<>>

(* the statement that follows statement p in the body of the for loop *)
StepAfter_cleanup_first(p) ==
    CASE p = "run" -> "cleanup"
      [] p = "cleanup" -> "estimate"
      [] p = "estimate" -> "for"

StepAfter(p) ==
    CASE p = "run" -> "estimate"
      [] p = "estimate" -> "cleanup"
      [] p = "cleanup" -> "for"

(* the for loop has another element *)
HasNext_off_by_one == i <= run_count(branch)

HasNext == i < run_count(branch)

(* main: `if not args.cached: setup(...)` with setup() returning *)
WorkspaceSetup ==
    /\ pc = "main"
    /\ out' = IF args.cached THEN out ELSE out \o SetupLog
    /\ pc' = "execute_run"
    /\ branch' = "dev"
    /\ UNCHANGED <<args, runs, i, run, remaining, calls, failed, report, raw>>
    /\ UNCHANGED <<timeVars, printVars>>

(* main: setup() raising (clone, venv, pip, install) *)
WorkspaceSetupFails ==
    /\ pc = "main"
    /\ ~args.cached
    /\ \E n \in SetupFailPoints : out' = out \o SubSeq(SetupLog, 1, n)
    /\ failed' = TRUE
    /\ pc' = "aborted"
    /\ UNCHANGED <<args, branch, runs, i, run, remaining, calls, report, raw>>
    /\ UNCHANGED <<timeVars, printVars>>

(* execute_run: log, branch.setup_thunk() *)
SetupThunk ==
    /\ pc = "execute_run"
    /\ out' = Append(out, Line("running branch setup", branch, 0, 0, ""))
    /\ calls' = Bump(branch, "setup")
    /\ \E ok \in BOOLEAN :
        /\ failed' = ~ok
        /\ pc' = IF ok THEN "check_count" ELSE "aborted"
    /\ UNCHANGED <<args, branch, runs, i, run, remaining, report, raw>>
    /\ UNCHANGED <<timeVars, printVars>>

(* execute_run: `if branch.run_count < 1: branch.runs = [1.0] * 10` (the   *)
(* assignment is written twice in the source), after which it returns      *)
DryRun_nine ==
    /\ pc = "check_count"
    /\ run_count(branch) < 1
    /\ runs' = [runs EXCEPT ![branch] = SubSeq(DryRuns, 1, DryRunLen - 1)]
    /\ pc' = "return"
    /\ UNCHANGED <<args, branch, i, run, remaining, calls, failed, out, report, raw>>
    /\ UNCHANGED <<timeVars, printVars>>

DryRun ==
    /\ pc = "check_count"
    /\ run_count(branch) < 1
    /\ runs' = [runs EXCEPT ![branch] = DryRuns]
    /\ pc' = "return"
    /\ UNCHANGED <<args, branch, i, run, remaining, calls, failed, out, report, raw>>
    /\ UNCHANGED <<timeVars, printVars>>

(* execute_run: `else: for thunk in [branch.run_thunk] * branch.run_count` *)
EnterLoop_skip_first ==
    /\ pc = "check_count"
    /\ ~(run_count(branch) < 1)
    /\ i' = 1
    /\ pc' = "for"
    /\ UNCHANGED <<args, branch, runs, run, remaining, calls, failed, out, report, raw>>
    /\ UNCHANGED <<timeVars, printVars>>

EnterLoop ==
    /\ pc = "check_count"
    /\ ~(run_count(branch) < 1)
    /\ i' = 0
    /\ pc' = "for"
    /\ UNCHANGED <<args, branch, runs, run, remaining, calls, failed, out, report, raw>>
    /\ UNCHANGED <<timeVars, printVars>>

(* one iteration begins: log "<b> run k/N", run = time(thunk),             *)
(* branch.runs = branch.runs + [run]; or the thunk raises inside time()    *)
RunThunk_shared_list ==
    /\ pc = "for"
    /\ HasNext
    /\ i' = i + 1
    /\ out' = Append(out, Line("run", branch, Len(runs[branch]) + 1, run_count(branch), ""))
    /\ calls' = Bump(branch, "run")
    /\ \/ \E d \in Durations :
            /\ run' = d
            /\ runs' = [b \in Branches |-> runs[b] \o <<d>>]
            /\ pc' = StepAfter("run")
            /\ failed' = FALSE
       \/ /\ failed' = TRUE
          /\ pc' = "aborted"
          /\ UNCHANGED <<run, runs>>
    /\ UNCHANGED <<args, branch, remaining, report, raw>>
    /\ UNCHANGED <<timeVars, printVars>>

RunThunk ==
    /\ pc = "for"
    /\ HasNext
    /\ i' = i + 1
    /\ out' = Append(out, Line("run", branch, Len(runs[branch]) + 1, run_count(branch), ""))
    /\ calls' = Bump(branch, "run")
    /\ \/ \E d \in Durations :
            /\ run' = d
            /\ runs' = [runs EXCEPT ![branch] = runs[branch] \o <<d>>]
            /\ pc' = StepAfter("run")
            /\ failed' = FALSE
       \/ /\ failed' = TRUE
          /\ pc' = "aborted"
          /\ UNCHANGED <<run, runs>>
    /\ UNCHANGED <<args, branch, remaining, report, raw>>
    /\ UNCHANGED <<timeVars, printVars>>

(* remaining = branch.time_remaining(branch.runs, branch.run_count), then  *)
(* log "run completed in <run> seconds", "estimated time remaining: ..."   *)
TimeRemaining ==
    /\ pc = "estimate"
    /\ remaining' = time_remaining(branch, runs[branch], run_count(branch))
    /\ calls' = Bump(branch, "time_remaining")
    /\ out' = out \o
         << Line("run completed", branch, run, 0, "seconds"),
            Line("estimated time remaining", branch,
                 time_string(remaining')[1], 0, time_string(remaining')[2]) >>
    /\ pc' = StepAfter("estimate")
    /\ UNCHANGED <<args, branch, runs, i, run, failed, report, raw>>
    /\ UNCHANGED <<timeVars, printVars>>

(* log "running <b> cleanup", branch.cleanup_thunk() *)
CleanupThunk_swallow ==
    /\ pc = "cleanup"
    /\ out' = Append(out, Line("running cleanup", branch, 0, 0, ""))
    /\ calls' = Bump(branch, "cleanup")
    /\ \E ok \in BOOLEAN :
        /\ failed' = ~ok
        /\ pc' = StepAfter("cleanup")
    /\ UNCHANGED <<args, branch, runs, i, run, remaining, report, raw>>
    /\ UNCHANGED <<timeVars, printVars>>

CleanupThunk ==
    /\ pc = "cleanup"
    /\ out' = Append(out, Line("running cleanup", branch, 0, 0, ""))
    /\ calls' = Bump(branch, "cleanup")
    /\ \E ok \in BOOLEAN :
        /\ failed' = ~ok
        /\ pc' = IF ok THEN StepAfter("cleanup") ELSE "aborted"
    /\ UNCHANGED <<args, branch, runs, i, run, remaining, report, raw>>
    /\ UNCHANGED <<timeVars, printVars>>

(* execute_run returns; main goes on with execute_run(base) or the report *)
Return ==
    /\ \/ pc = "return"
       \/ pc = "for" /\ ~HasNext
    /\ IF branch = "dev"
       THEN branch' = "base" /\ pc' = "execute_run"
       ELSE branch' = branch /\ pc' = "report"
    /\ i' = 0
    /\ run' = 0
    /\ remaining' = 0
    /\ UNCHANGED <<args, runs, calls, failed, out, report, raw>>
    /\ UNCHANGED <<timeVars, printVars>>

(* gather_output(args, dev.runs, base.runs): dev.sort(); base.sort() on    *)
(* the lists the Run objects hold; then the statistics of the report,      *)
(* which print_results prints                                              *)
gather_output_on_copies ==
    /\ pc = "report"
    /\ runs' = runs
    /\ report' = << get_stat("mean", mean2(runs["dev"]), mean2(runs["base"])),
                    get_stat("median", median2(runs["dev"]), median2(runs["base"])) >>
    /\ pc' = "raw"
    /\ UNCHANGED <<args, branch, i, run, remaining, calls, failed, out, raw>>
    /\ UNCHANGED <<timeVars, printVars>>

gather_output ==
    /\ pc = "report"
    /\ runs' = [b \in Branches |-> sort(runs[b])]
    /\ report' = << get_stat("mean", mean2(runs'["dev"]), mean2(runs'["base"])),
                    get_stat("median", median2(runs'["dev"]), median2(runs'["base"])) >>
    /\ pc' = "raw"
    /\ UNCHANGED <<args, branch, i, run, remaining, calls, failed, out, raw>>
    /\ UNCHANGED <<timeVars, printVars>>

(* main: print "raw dev_runs: {dev.runs}", "raw base_runs: {base.runs}" *)
PrintRaw ==
    /\ pc = "raw"
    /\ raw' = runs
    /\ pc' = "done"
    /\ UNCHANGED <<args, branch, runs, i, run, remaining, calls, failed, out, report>>
    /\ UNCHANGED <<timeVars, printVars>>

Next ==
    \/ WorkspaceSetup
    \/ WorkspaceSetupFails
    \/ SetupThunk
    \/ DryRun
    \/ EnterLoop
    \/ RunThunk
    \/ TimeRemaining
    \/ CleanupThunk
    \/ Return
    \/ gather_output
    \/ PrintRaw

Spec == Init /\ [][Next]_vars

----------------------------------------------------------------------------
(* time_string called on its own, on every second count up to MaxSeconds *)

InitTime ==
    /\ pc = "time_string"
    /\ args = [runs |-> 0, cached |-> TRUE]
    /\ branch = "dev"
    /\ runs = [b \in Branches |-> <<>>]
    /\ i = 0
    /\ run = 0
    /\ remaining = 0
    /\ calls = [b \in Branches |-> [t \in Thunks |-> 0]]
    /\ failed = FALSE
    /\ out = <<>>
    /\ report = NoReport
    /\ raw = [b \in Branches |-> <<>>]
    /\ seconds \in 0..MaxSeconds
    /\ shown = <<0, "">>
    /\ kvs = <<>>
    /\ lines = <<>>

TimeString ==
    /\ pc = "time_string"
    /\ shown' = time_string(seconds)
    /\ pc' = "done"
    /\ UNCHANGED <<args, branch, runs, i, run, remaining, calls, failed, out, report, raw>>
    /\ UNCHANGED <<seconds, printVars>>

NextTime == TimeString

SpecTime == InitTime /\ [][NextTime]_vars

----------------------------------------------------------------------------
(* print_results.  A ReportLine is <<label, value, fill>>; label is a      *)
(* string, value is None or Some(string), fill is one character.           *)

None == <<>>
Some(s) == <<s>>

(* ''.join([c] * n): empty when n <= 0 *)
Rep(c, n) == [j \in 1..n |-> c]

(* '  Benchmark stats  ' *)
HeaderLabel ==
    << " ", " ", "B", "e", "n", "c", "h", "m", "a", "r", "k", " ",
       "s", "t", "a", "t", "s", " ", " " >>

Header == <<HeaderLabel, None, ":">>

min_separation == 6

pair_to_line(full_width, kv) ==
    IF kv[2] = None
    THEN LET padding_size == ceil(full_width - Len(kv[1]), 2)
             padding == Rep(kv[3], padding_size)
         IN  padding \o kv[1] \o padding
    ELSE LET padding == Rep(kv[3], full_width - Len(kv[1]) - Len(kv[2][1]))
         IN  kv[1] \o padding \o kv[2][1]

len_none_is_zero(x) == IF x = None THEN 0 ELSE Len(x[1])

key_len_of_non_none_values(kv) == IF kv[2] = None THEN 0 ELSE Len(kv[1])

(* reduce(lambda x, y: max(x, y), l, acc) *)
RECURSIVE reduce_max(_, _)
reduce_max(l, acc) ==
    IF l = <<>> THEN acc ELSE reduce_max(Tail(l), Max(acc, Head(l)))

(* line[0:n] for n >= 0 *)
Slice(line, n) == SubSeq(line, 1, Min(n, Len(line)))

(* l[k] with Python's indexing: 0-based, negative k counts from the end *)
PyIndex(l, k) == IF k < 0 THEN l[Len(l) + k + 1] ELSE l[k + 1]

(* the rows print_results(kvs) prints, in order *)
print_results(kvs0) ==
    LET kvs1 == <<Header>> \o kvs0
        max_key_width ==
            reduce_max([j \in 1..Len(kvs1) |-> key_len_of_non_none_values(kvs1[j])], 0)
        max_value_width ==
            reduce_max([j \in 1..Len(kvs1) |-> len_none_is_zero(kvs1[j][2])], 0)
        lines0 == [j \in 1..Len(kvs1) |->
                     pair_to_line(min_separation + max_key_width + max_value_width, kvs1[j])]
        line_lengths == [j \in 1..Len(lines0) |-> Len(lines0[j])]
        full_width == PyIndex(line_lengths, Len(line_lengths) - 2)
    IN  [j \in 1..Len(lines0) |-> Slice(lines0[j], full_width)]

(* the report lines print_results is tried on *)
KeyLens == {0, 1, MaxKeyLen - 1, MaxKeyLen}
ValLens == 1..MaxValLen

ReportLines ==
    { <<Rep("k", a), Some(Rep("v", b)), ".">> : a \in KeyLens, b \in ValLens }
    \cup { <<Rep("k", a), None, " ">> : a \in KeyLens }

InitPrint ==
    /\ pc = "print_results"
    /\ args = [runs |-> 0, cached |-> TRUE]
    /\ branch = "dev"
    /\ runs = [b \in Branches |-> <<>>]
    /\ i = 0
    /\ run = 0
    /\ remaining = 0
    /\ calls = [b \in Branches |-> [t \in Thunks |-> 0]]
    /\ failed = FALSE
    /\ out = <<>>
    /\ report = NoReport
    /\ raw = [b \in Branches |-> <<>>]
    /\ seconds = 0
    /\ shown = <<0, "">>
    /\ kvs \in UNION { [1..n -> ReportLines] : n \in 0..MaxLines }
    /\ lines = <<>>

PrintResults ==
    /\ pc = "print_results"
    /\ lines' = print_results(kvs)
    /\ pc' = "done"
    /\ UNCHANGED <<args, branch, runs, i, run, remaining, calls, failed, out, report, raw>>
    /\ UNCHANGED <<timeVars, kvs>>

NextPrint == PrintResults

SpecPrint == InitPrint /\ [][NextPrint]_vars

----------------------------------------------------------------------------
(* Vocabulary of the properties *)

(* execute_run(b) has returned *)
Returned(b) ==
    IF b = "dev" THEN branch = "base" ELSE pc \in {"report", "raw", "done"}

(* execute_run(b) has been entered and has returned or raised *)
Ended(b) == Returned(b) \/ (pc = "aborted" /\ branch = b /\ calls[b]["setup"] > 0)

(* main is inside execute_run *)
InExecuteRun == pc \in {"execute_run", "check_count", "for", "estimate", "cleanup", "return"}

(* the durations of the "run completed" lines of branch b, in log order *)
RECURSIVE CompletedIn(_, _)
CompletedIn(l, b) ==
    IF l = <<>> THEN <<>>
    ELSE IF Head(l).ev = "run completed" /\ Head(l).b = b
         THEN <<Head(l).x>> \o CompletedIn(Tail(l), b)
         ELSE CompletedIn(Tail(l), b)

Completed(b) == CompletedIn(out, b)

IsAscending(l) == \A j \in 1..(Len(l) - 1) : l[j] <= l[j + 1]

Count(d, l) == Cardinality({j \in 1..Len(l) : l[j] = d})

SameDurations(l, m) ==
    /\ Len(l) = Len(m)
    /\ \A d \in Durations : Count(d, l) = Count(d, m)

(* r is num/den rounded to the nearest integer, ties to the even one *)
IsRounded(r, num, den) ==
    LET diff == IF r * den >= num THEN r * den - num ELSE num - r * den
    IN  /\ 2 * diff <= den
        /\ (2 * diff = den => r % 2 = 0)

(* q is the least integer with q * d >= n *)
IsCeil(q, n, d) == q * d >= n /\ (q - 1) * d < n

SecondsOf(t) ==
    CASE t[2] = "seconds" -> t[1]
      [] t[2] = "minutes" -> t[1] * 60
      [] t[2] = "hours" -> t[1] * 3600

----------------------------------------------------------------------------
(* C1 as stated: in every reachable state the length of a branch's history *)
(* (branch.runs) is at most the branch's planned trial count (run_count),  *)
(* for any planned count, plannedCount < 1 included (here: any planned     *)
(* count that is a non-negative integer, plannedCount = 0 included).       *)
C1_HistoryWithinPlannedCount ==
    \A b \in Branches : run_count(b) >= 0 => Len(runs[b]) <= run_count(b)

(* C1 amended: with a planned count of at least 1 the history never has    *)
(* more entries than the planned count; with a planned count below 1 the   *)
(* history is empty or holds the ten dry-run entries.                      *)
C1_HistoryWithinPlannedCountOrDryRun ==
    \A b \in Branches :
        /\ run_count(b) >= 1 => Len(runs[b]) <= run_count(b)
        /\ run_count(b) < 1 => Len(runs[b]) \in {0, 10}

C1_Witness ==
    /\ pc = "done"
    /\ run_count("dev") >= 2
    /\ Len(runs["dev"]) = run_count("dev")
    /\ Len(runs["base"]) = run_count("base")

(* C2: for every non-empty input, all rows print_results prints, the       *)
(* header row included, have the same length.                              *)
C2_RowsHaveEqualLength ==
    (pc = "done" /\ kvs # <<>>) =>
        \A j, k \in 1..Len(lines) : Len(lines[j]) = Len(lines[k])

(* C3 as stated: producing the report leaves dev.runs and base.runs in     *)
(* trial-completion order, so the raw histories printed after the report   *)
(* are in completion order.                                                *)
C3_HistoryStaysInCompletionOrder ==
    \A b \in Branches :
        (run_count(b) >= 1 /\ pc \in {"raw", "done"}) =>
            /\ runs[b] = Completed(b)
            /\ pc = "done" => raw[b] = Completed(b)

(* C3 amended: a history is in completion order until the report;          *)
(* gather_output sorts dev.runs and base.runs in place, so from then on    *)
(* the history, and the raw history printed, hold the same durations in    *)
(* ascending order.                                                        *)
C3_HistorySortedInPlaceByReport ==
    \A b \in Branches :
        run_count(b) >= 1 =>
            /\ (pc \notin {"raw", "done"} /\ ~(pc = "estimate" /\ branch = b))
                   => runs[b] = Completed(b)
            /\ (pc = "estimate" /\ branch = b) => runs[b] = Completed(b) \o <<run>>
            /\ pc \in {"raw", "done"} =>
                   IsAscending(runs[b]) /\ SameDurations(runs[b], Completed(b))
            /\ pc = "done" => raw[b] = runs[b]

C3_Witness ==
    /\ pc = "done"
    /\ ~IsAscending(Completed("dev"))
    /\ raw["dev"] # Completed("dev")
    /\ IsAscending(raw["dev"])

(* C4 as stated: with plannedCount < 1, whatever setup, trial and cleanup  *)
(* do (failing included), the run ends with a history of exactly ten       *)
(* entries equal to 1.0 and the trial callback is never invoked.           *)
C4_DryRunWhateverActionsDo ==
    \A b \in Branches :
        (run_count(b) < 1 /\ Ended(b)) =>
            /\ Len(runs[b]) = 10
            /\ \A j \in 1..Len(runs[b]) : runs[b][j] = 1000
            /\ calls[b]["run"] = 0

(* C4 amended: with plannedCount < 1 the branch-level setup is invoked     *)
(* once; if it succeeds the run ends with a history of exactly ten entries *)
(* equal to 1.0, if it fails the run aborts with an empty history; the     *)
(* trial and cleanup callbacks and the estimator are never invoked.        *)
C4_DryRunAfterSetup ==
    \A b \in Branches :
        run_count(b) < 1 =>
            /\ calls[b]["run"] = 0
            /\ calls[b]["cleanup"] = 0
            /\ calls[b]["time_remaining"] = 0
            /\ Returned(b) =>
                  /\ calls[b]["setup"] = 1
                  /\ Len(runs[b]) = 10
                  /\ \A j \in 1..Len(runs[b]) : runs[b][j] = 1000
            /\ (Ended(b) /\ ~Returned(b)) =>
                  /\ calls[b]["setup"] = 1
                  /\ runs[b] = <<>>
            /\ (~Ended(b) /\ pc # "return") => runs[b] = <<>>

C4_Witness ==
    /\ run_count("dev") < 1
    /\ pc = "done"
    /\ calls["dev"]["setup"] = 1
    /\ Len(runs["dev"]) = 10
    /\ Len(raw["base"]) = 10

(* C5: with plannedCount = N >= 1 and actions that all succeed, a run      *)
(* invokes the branch-level setup exactly once and before any trial, the   *)
(* trial action N times and cleanup N times, appends one duration per      *)
(* trial and ends with a history of length N.                              *)
C5_SetupOnceThenNTrials ==
    \A b \in Branches :
        run_count(b) >= 1 =>
            /\ calls[b]["setup"] <= 1
            /\ calls[b]["run"] > 0 => calls[b]["setup"] = 1
            /\ ~failed => Len(runs[b]) = calls[b]["run"]
            /\ Returned(b) =>
                  /\ calls[b]["setup"] = 1
                  /\ calls[b]["run"] = run_count(b)
                  /\ calls[b]["cleanup"] = run_count(b)
                  /\ Len(runs[b]) = run_count(b)

C5_Witness ==
    /\ pc = "report"
    /\ ~failed
    /\ run_count("base") = 3
    /\ calls["base"]["run"] = 3
    /\ calls["base"]["cleanup"] = 3
    /\ Len(runs["base"]) = 3

(* C6: when a setup, trial or cleanup action fails the run aborts at once:  *)
(* nothing is invoked after the failing call (no setup, trial, cleanup or  *)
(* estimator call, no retry), the other branch's run and the report are    *)
(* not started and no history is reported.                                 *)
C6_FailureAborts ==
    /\ [](failed =>
            /\ pc = "aborted"
            /\ report = NoReport
            /\ \A b \in Branches : raw[b] = <<>>
            /\ branch = "dev" => \A t \in Thunks : calls["base"][t] = 0)
    /\ [][failed => UNCHANGED mainVars]_vars

C6_Witness ==
    /\ failed
    /\ pc = "aborted"
    /\ branch = "dev"
    /\ calls["dev"]["run"] = 2
    /\ Len(runs["dev"]) = 1
    /\ calls["dev"]["cleanup"] = 1

(* C7: branches never interleave: no setup, trial or cleanup of base is    *)
(* invoked (and nothing is logged for it) until dev has completed all its  *)
(* trials and its last cleanup, and while one branch runs the history of   *)
(* the other is unchanged.                                                 *)
C7_BranchesNeverInterleave ==
    /\ []( ((\E t \in Thunks : calls["base"][t] > 0) \/ runs["base"] # <<>>
               \/ (\E j \in 1..Len(out) : out[j].b = "base"))
           => /\ branch = "base"
              /\ run_count("dev") >= 1 =>
                    /\ calls["dev"]["run"] = run_count("dev")
                    /\ calls["dev"]["cleanup"] = run_count("dev")
                    /\ Len(runs["dev"]) = run_count("dev")
              /\ run_count("dev") < 1 => Len(runs["dev"]) = 10 )
    /\ [](\A j, k \in 1..Len(out) : (j < k /\ out[j].b = "base") => out[k].b = "base")
    /\ [][ InExecuteRun =>
             /\ branch = "dev" => runs'["base"] = runs["base"] /\ calls'["base"] = calls["base"]
             /\ branch = "base" => runs'["dev"] = runs["dev"] /\ calls'["dev"] = calls["dev"] ]_vars

C7_Witness ==
    /\ branch = "base"
    /\ pc = "cleanup"
    /\ run_count("base") >= 2
    /\ calls["base"]["run"] = 1
    /\ Len(runs["dev"]) = run_count("dev")
    /\ runs["base"][1] # runs["dev"][1]

(* C8: for every second count N >= 0 the display is "N seconds" when       *)
(* N <= 60, "ceil(N/60) minutes" when 60 < N <= 3600 and                   *)
(* "ceil(N/3600) hours" when N > 3600, so the displayed quantity is never  *)
(* less than N seconds; 45 -> 45 seconds, 90 -> 2 minutes, 4000 -> 2 hours.*)
C8_TimeStringRoundsUp ==
    pc = "done" =>
        /\ seconds <= 60 => shown = <<seconds, "seconds">>
        /\ (60 < seconds /\ seconds <= 3600) =>
              shown[2] = "minutes" /\ IsCeil(shown[1], seconds, 60)
        /\ seconds > 3600 =>
              shown[2] = "hours" /\ IsCeil(shown[1], seconds, 3600)
        /\ SecondsOf(shown) >= seconds
        /\ seconds = 45 => shown = <<45, "seconds">>
        /\ seconds = 90 => shown = <<2, "minutes">>
        /\ seconds = 4000 => shown = <<2, "hours">>

C8_Witness ==
    /\ pc = "done"
    /\ seconds = 4000
    /\ shown = <<2, "hours">>

(* C9: after each completed trial k of N the estimate logged is the        *)
(* branch's policy applied to the history that already includes trial k:   *)
(* round(mean(history) * (2N - k)) for dev (double-remaining),             *)
(* round(mean(history) * (N - k)) for base (linear-remaining); it is a     *)
(* non-negative integer, the linear estimate after the final trial is 0,   *)
(* and history [2.0] with N = 5 gives 18 (double) and 8 (linear).          *)
C9_EstimateFromHistoryWithTrial ==
    (pc = "cleanup") =>
        LET l == runs[branch]
            k == calls[branch]["time_remaining"]
            n == run_count(branch)
            todo == IF branch = "dev" THEN (2 * n) - k ELSE n - k
            logged == out[Len(out)]
        IN  /\ 1 <= k /\ k <= n
            /\ Len(l) = k
            /\ l[k] = run
            /\ IsRounded(remaining, Sum(l) * todo, 1000 * k)
            /\ remaining \in Nat
            /\ (branch = "base" /\ k = n) => remaining = 0
            /\ (l = <<2000>> /\ n = 5 /\ branch = "dev") => remaining = 18
            /\ (l = <<2000>> /\ n = 5 /\ branch = "base") => remaining = 8
            /\ logged.ev = "estimated time remaining"
            /\ logged.b = branch
            /\ SecondsOf(<<logged.x, logged.u>>) >= remaining
            /\ remaining <= 60 => (logged.x = remaining /\ logged.u = "seconds")

C9_Witness ==
    /\ pc = "cleanup"
    /\ branch = "base"
    /\ run_count("base") = 5
    /\ runs["base"] = <<2000>>
    /\ remaining = 8
    /\ \E j \in 2..(Len(out) - 1) :
          /\ out[j - 1] = Line("run", "dev", 1, 5, "")
          /\ out[j] = Line("run completed", "dev", 2000, 0, "seconds")
          /\ out[j + 1] = Line("estimated time remaining", "dev", 18, 0, "seconds")

(* C10 as stated: in every trial cycle the cleanup of trial k is invoked   *)
(* before the estimator is queried and the progress lines of trial k       *)
(* (duration, estimated remaining time) are written.                       *)
C10_CleanupBeforeEstimate ==
    /\ \A b \in Branches : calls[b]["time_remaining"] <= calls[b]["cleanup"]
    /\ \A j \in 1..Len(out) :
          out[j].ev = "run completed" => (j > 1 /\ out[j - 1].ev = "running cleanup")

(* C10 amended: in every trial cycle the trial is timed, its duration      *)
(* appended, then the estimator queried and the two progress lines         *)
(* written, and only then the cleanup invoked: the estimator query and the *)
(* progress lines of trial k precede the cleanup of trial k.               *)
C10_EstimateBeforeCleanup ==
    /\ \A b \in Branches :
          /\ calls[b]["cleanup"] <= calls[b]["time_remaining"]
          /\ calls[b]["time_remaining"] <= calls[b]["run"]
          /\ calls[b]["time_remaining"] <= calls[b]["cleanup"] + 1
    /\ pc = "estimate" => (Len(runs[branch]) = i /\ runs[branch][i] = run)
    /\ \A j \in 1..Len(out) :
          out[j].ev = "running cleanup" =>
              /\ j > 3
              /\ out[j - 1].ev = "estimated time remaining" /\ out[j - 1].b = out[j].b
              /\ out[j - 2].ev = "run completed" /\ out[j - 2].b = out[j].b
              /\ out[j - 3].ev = "run" /\ out[j - 3].b = out[j].b

C10_Witness ==
    /\ pc = "for"
    /\ i >= 2
    /\ calls[branch]["cleanup"] = i
    /\ calls[branch]["time_remaining"] = i
    /\ out[Len(out)].ev = "running cleanup"

====
